---- MODULE Spec2Model ----
(***************************************************************************)
(* Model of the Musik streaming backend: the payment gateway client        *)
(* (services/zalopay.ts), the federated search handlers, and the song and  *)
(* artist CRUD handlers.  Each async handler is split at its await points; *)
(* the code between two awaits is one atomic action (single-threaded event *)
(* loop).                                                                  *)
(***************************************************************************)
EXTENDS Integers, Sequences, FiniteSets, Bags, TLC

(***************************************************************************)
(* Bounds of the model                                                     *)
(***************************************************************************)
MaxOrders == 3        \* number of createOrder calls in one process
MaxCallbacks == 2     \* number of receiveOrderCallback calls recorded
MaxSongReqs == 2      \* number of HTTP requests to the song handlers
MaxSearchReqs == 3    \* number of HTTP requests in the search specification
MaxWrites == 1        \* how many of them may be an updateSong
MaxTicks == 3         \* number of clock steps of CacheTtl / 2 seconds
MaxPagingReqs == 1    \* number of HTTP requests in the paging specification

None == "none"

(***************************************************************************)
(* Payment gateway client state (class ZaloPay)                            *)
(***************************************************************************)
VARIABLES
    orderID,      \* this.orderID
    today,        \* index into Dates: what `new Date()` returns now
    call,         \* per createOrder call: its position and its locals
    started,      \* number of createOrder calls started so far
    callbacks,    \* number of receiveOrderCallback calls made
    lastCallback  \* arguments and result of the latest receiveOrderCallback

payVars == <<orderID, today, call, started, callbacks, lastCallback>>

(***************************************************************************)
(* Record store (supabase), cache (redis), clock and HTTP requests         *)
(***************************************************************************)
VARIABLES
    songs,        \* rows of table "songs"
    artistTable,  \* rows of table "artists", in table order
    links,        \* rows of table "artistssongs", a bag
    nextSongId,   \* the id the store gives the next inserted song
    cache,        \* redis: the live entries, one per key
    sets,         \* redis.set calls dispatched and not yet applied
    now,          \* wall clock, in seconds
    req,          \* per HTTP request: handler, position, locals, responses
    effects       \* fire-and-forget calls to backblaze / cloudinary

storeVars == <<songs, artistTable, links, nextSongId>>
cacheVars == <<cache, sets, now>>
webVars == <<storeVars, cacheVars, req, effects>>

vars == <<payVars, webVars>>

\* ---- string helpers: a string is a sequence of one-character strings ----

DigitChars == <<"0", "1", "2", "3", "4", "5", "6", "7", "8", "9">>

RECURSIVE NumToString(_)
\* Number.prototype.toString() of a non-negative integer
NumToString(n) ==
    IF n < 10 THEN <<DigitChars[n + 1]>>
    ELSE NumToString(n \div 10) \o <<DigitChars[(n % 10) + 1]>>

\* String.prototype.slice(-k)
SliceLast(s, k) ==
    IF Len(s) <= k THEN s ELSE SubSeq(s, Len(s) - k + 1, Len(s))

\* String.prototype.padStart(2, "0")
PadStart2(s) ==
    IF Len(s) >= 2 THEN s
    ELSE IF Len(s) = 1 THEN <<"0">> \o s
    ELSE <<"0", "0">>

\* ---- environment ----

\* env.ZALO_KEY1 / env.ZALO_KEY2 and env.ZALO_APP_ID
Key1 == "key1"
Key2 == "key2"
AppId == "app"

\* createHmac("sha256", key).update(data).digest("hex"), idealised as a
\* collision-free keyed digest
Hmac(key, data) == <<"hmac", key, data>>

\* Date.now() at process start (milliseconds), small enough for TLC integers
StartMillis == {1000000008, 1000000098, 1000999997}

\* the calendar days `new Date()` may report, in order; month is 0-based as
\* Date.getMonth() returns it
Dates == << [year |-> 2025, month |-> 11, day |-> 31],
            [year |-> 2026, month |-> 0, day |-> 1] >>

Users == {"u1"}
ItemLists == { <<[itemprice |-> 2, itemquantity |-> 3],
                 [itemprice |-> 5, itemquantity |-> 1]>> }

Calls == 1..MaxOrders

\* ---- ZaloPay ----

\* parseInt(Date.now().toString().slice(-6))
RECURSIVE ParseInt(_)
ParseInt(s) ==
    IF Len(s) = 0 THEN 0
    ELSE LET d == CHOOSE i \in 1..10 : DigitChars[i] = s[Len(s)]
         IN  10 * ParseInt(SubSeq(s, 1, Len(s) - 1)) + (d - 1)

ConstructorOrderID(nowMs) == ParseInt(SliceLast(NumToString(nowMs), 6))

\* the template literal of app_trans_id
AppTransId(date, id) ==
    SliceLast(NumToString(date.year), 2)
        \o PadStart2(NumToString(date.month + 1))
        \o PadStart2(NumToString(date.day))
        \o <<"_">>
        \o NumToString(id)

RECURSIVE Amount(_)
\* items.reduce((acc, item) => acc + item.itemprice * item.itemquantity, 0)
Amount(items) ==
    IF Len(items) = 0 THEN 0
    ELSE Amount(SubSeq(items, 1, Len(items) - 1))
            + items[Len(items)].itemprice * items[Len(items)].itemquantity

\* the order object built by createOrder, given the counter after this.orderID++
BuildOrder(id, date, user_id, items) ==
    LET tid == AppTransId(date, id)
        amt == Amount(items)
    IN  [ app_id       |-> AppId,
          app_trans_id |-> tid,
          app_user     |-> user_id,
          item         |-> items,
          amount       |-> amt,
          description  |-> id,
          mac          |-> Hmac(Key1, <<AppId, tid, user_id, amt, items>>) ]

NoCallback == [dataStr |-> None, reqMac |-> <<>>, seen |-> 0,
               result |-> [return_code |-> 0, return_message |-> None]]

IdleCall == [pc |-> "idle", order |-> None, idx |-> 0, ret |-> <<>>]

\* a createOrder that forgets to advance the counter
CreateOrderNextIDStale(id) == id

\* this.orderID++
CreateOrderNextID(id) == id + 1

\* createOrder up to its await: the increment, the order and the POST

CreateOrderStart(c, user_id, items) ==
    /\ call[c].pc = "idle"
    /\ \A d \in Calls : d < c => call[d].pc # "idle"
    /\ orderID' = CreateOrderNextID(orderID)
    /\ started' = started + 1
    /\ call' = [call EXCEPT ![c] =
                  [pc |-> "posted",
                   order |-> BuildOrder(orderID', Dates[today], user_id, items),
                   idx |-> started + 1,
                   ret |-> <<>>]]
    /\ UNCHANGED <<today, callbacks, lastCallback, webVars>>

\* axios.post resolves: return { ...res.data, app_trans_id: order.app_trans_id }
CreateOrderReturn(c) ==
    /\ call[c].pc = "posted"
    /\ call' = [call EXCEPT ![c].pc = "returned",
                            ![c].ret = call[c].order.app_trans_id]
    /\ UNCHANGED <<orderID, today, started, callbacks, lastCallback, webVars>>

\* axios.post rejects: createOrder rejects, nothing is returned
CreateOrderThrow(c) ==
    /\ call[c].pc = "posted"
    /\ call' = [call EXCEPT ![c].pc = "threw"]
    /\ UNCHANGED <<orderID, today, started, callbacks, lastCallback, webVars>>

\* the wall clock passes midnight
NextDay ==
    /\ today < Len(Dates)
    /\ today' = today + 1
    /\ UNCHANGED <<orderID, call, started, callbacks, lastCallback, webVars>>

\* values the callback caller may pass as dataStr; NotAString stands for a
\* runtime value that is not a string, on which Hmac.update throws
NotAString == "<<not a string>>"
Payloads == {"p1", "p2"}
Macs == { Hmac(k, p) : k \in {Key1, Key2}, p \in Payloads } \cup {<<"bogus">>}

\* a callback check that signs with the order key
CallbackKeyPrimary == Key1

\* the key receiveOrderCallback hands to createHmac
CallbackKey == Key2

ReceiveOrderCallbackResult(dataStr, reqMac) ==
    IF dataStr = NotAString
    THEN [return_code |-> 0, return_message |-> "exception"]
    ELSE IF reqMac # Hmac(CallbackKey, dataStr)
         THEN [return_code |-> -1, return_message |-> "mac not equal"]
         ELSE [return_code |-> 1, return_message |-> "success"]

\* a callback check that draws a number from the order sequence
CallbackOrderIDNext(id) == id + 1

\* this.orderID after receiveOrderCallback: the method does not assign it
CallbackOrderID(id) == id

\* seen: how many createOrder calls had started when the callback came
ReceiveOrderCallback(dataStr, reqMac) ==
    /\ callbacks < MaxCallbacks
    /\ callbacks' = callbacks + 1
    /\ lastCallback' = [dataStr |-> dataStr, reqMac |-> reqMac, seen |-> started,
                        result |-> ReceiveOrderCallbackResult(dataStr, reqMac)]
    /\ orderID' = CallbackOrderID(orderID)
    /\ UNCHANGED <<today, call, started, webVars>>

NextPay ==
    \/ \E c \in Calls, u \in Users, it \in ItemLists : CreateOrderStart(c, u, it)
    \/ \E c \in Calls : CreateOrderReturn(c)
    \/ \E c \in Calls : CreateOrderThrow(c)
    \/ NextDay
    \/ \E p \in Payloads \cup {NotAString}, m \in Macs : ReceiveOrderCallback(p, m)

(***************************************************************************)
(* HTTP handlers: common parts                                             *)
(***************************************************************************)

\* a field the request does not carry (undefined)
Missing == "<undefined>"

\* `v && {...}` on a string field
Truthy(v) == v \notin {Missing, ""}

\* values handed to res.json and redis.set: { field: value }, an array of
\* rows, and the string JSON.stringify produces
JObject(field, value) == <<"object", field, value>>
JArray(rows) == <<"array", rows>>
JString(value) == <<"string", value>>

Response(status, body) == [status |-> status, body |-> body]

Reqs == DOMAIN req

IdleReq ==
    [ op      |-> "none",  \* the handler
      pc      |-> "idle",  \* idle, the await it is suspended at, done, threw
      p       |-> <<>>,    \* req.params, req.query, req.body, req.file
      data    |-> 0,       \* the id of the row the store inserted or deleted
      pending |-> {},      \* link inserts not yet settled
      errors  |-> {},      \* link inserts that settled with an error
      resp    |-> <<>>,    \* the responses sent, in order
      ended   |-> 0 ]      \* clock when the response was sent

\* requests are taken in slot order
CanBegin(r) ==
    /\ req[r].pc = "idle"
    /\ \A q \in Reqs : q < r => req[q].pc # "idle"

\* res.status(status).json(body); return
Respond(rq, status, body) ==
    [rq EXCEPT !.pc = "done",
               !.resp = Append(rq.resp, Response(status, body)),
               !.ended = now]

\* an exception escapes the async handler: the handler sends nothing; whether
\* the framework answers 500 for it depends on the Express major version
Throw(rq, frameworkAnswers) ==
    [rq EXCEPT !.pc = "threw",
               !.resp = IF frameworkAnswers
                        THEN Append(rq.resp, Response(500, JObject("error", "unhandled")))
                        ELSE rq.resp]

(***************************************************************************)
(* Song handlers: addSong, updateSong, deleteSong                          *)
(***************************************************************************)

Primary == "Primary"
Featured == "Featured"

ArtistIds == {"a", "b"}

\* req.body.artists: lists of artist ids, one of them with a repeated id
ArtistLists == { <<>>, <<"a", "b">>, <<"b", "a">>, <<"b", "b">> }

\* a body without the artists field: `artists` is undefined in addSong
NoArtists == <<Missing>>

AddSongBodies ==
    { [title |-> Missing, description |-> Missing, artists |-> NoArtists] }
      \cup [ title : {"y"}, description : {Missing},
             artists : ArtistLists \cup {NoArtists} ]

\* the requests to addSong: every body without a file, one body with a file
AddSongInputs ==
    { <<body, FALSE>> : body \in AddSongBodies }
      \cup { <<[title |-> "y", description |-> Missing, artists |-> <<"a">>], TRUE>> }

\* the sparse payload of addSong and the row the store makes of it
SongRow(id, body) ==
    [ id |-> id, title |-> body.title,
      description |-> IF Truthy(body.description) THEN body.description ELSE Missing ]

\* a link relation that takes the index as 1-based
LinkRelationOneBased(index) == IF index = 1 THEN Primary ELSE Featured

\* relation: index === 0 ? "Primary" : "Featured" (index is 0-based)
LinkRelation(index) == IF index = 0 THEN Primary ELSE Featured

LinkRow(songid, artists, i) ==
    [songid |-> songid, artistid |-> artists[i], relation |-> LinkRelation(i - 1)]

\* addSong through its first await: the title check, the awaited song
\* insert and, when it succeeds, the link inserts, all issued at once
AddSong(r, body, file, ok, frameworkAnswers) ==
    /\ CanBegin(r)
    /\ LET rq == [req[r] EXCEPT !.op = "addSong",
                                !.p = [body |-> body, file |-> file]]
       IN  IF ~Truthy(body.title)
           THEN /\ req' = [req EXCEPT ![r] =
                      Respond(rq, 400, JObject("error", "Payload must have field: title"))]
                /\ UNCHANGED storeVars
           ELSE IF ~ok
           THEN /\ req' = [req EXCEPT ![r] =
                      Respond(rq, 500, JObject("error", "insert songs failed"))]
                /\ UNCHANGED storeVars
           ELSE /\ songs' = songs \cup {SongRow(nextSongId, body)}
                /\ nextSongId' = nextSongId + 1
                /\ UNCHANGED <<artistTable, links>>
                /\ req' = [req EXCEPT ![r] =
                             IF body.artists = NoArtists
                             THEN Throw([rq EXCEPT !.data = nextSongId], frameworkAnswers)
                             ELSE [rq EXCEPT !.pc = "links",
                                             !.data = nextSongId,
                                             !.pending = 1..Len(body.artists)]]
    /\ UNCHANGED <<payVars, cacheVars, effects>>

\* one link insert settles, in any order
LinkInsertSettles(r, i, ok) ==
    /\ req[r].op = "addSong" /\ req[r].pc = "links"
    /\ i \in req[r].pending
    /\ links' = IF ok
                THEN links (+) SetToBag({LinkRow(req[r].data, req[r].p.body.artists, i)})
                ELSE links
    /\ req' = [req EXCEPT ![r].pending = @ \ {i},
                          ![r].errors = IF ok THEN @ ELSE @ \cup {i}]
    /\ UNCHANGED <<payVars, songs, artistTable, nextSongId, cacheVars, effects>>

\* error.message of the failed insert of the i-th link
LinkErrorMessage(i) == <<"insert artistssongs failed", i>>

\* a report that carries the message of the first failed insert only
LinkErrorMessagesFirst(errors, n) ==
    <<LinkErrorMessage(CHOOSE i \in errors : \A j \in errors : i <= j)>>

RECURSIVE LinkErrorMessages(_, _)
\* errors.map((e) => e.error.message): the failed inserts in list order
LinkErrorMessages(errors, n) ==
    IF n = 0 THEN <<>>
    ELSE LinkErrorMessages(errors, n - 1)
            \o (IF n \in errors THEN <<LinkErrorMessage(n)>> ELSE <<>>)

\* Promise.all(promises) resolved: report, start the upload, answer
AddSongFinish(r) ==
    /\ req[r].op = "addSong" /\ req[r].pc = "links"
    /\ req[r].pending = {}
    /\ LET rq == req[r]
           n == Len(rq.p.body.artists)
       IN  IF rq.errors # {}
           THEN /\ req' = [req EXCEPT ![r] =
                      Respond(rq, 500,
                          <<"object", "error", <<"Failed to link", rq.data>>,
                            "details", LinkErrorMessages(rq.errors, n)>>)]
                /\ UNCHANGED effects
           ELSE /\ req' = [req EXCEPT ![r] =
                      Respond(rq, 201, JObject("message", <<"created", rq.p.body.title>>))]
                /\ effects' = IF rq.p.file
                              THEN effects \cup {[r |-> r, kind |-> "cloudinary.upload",
                                                  target |-> <<"songs", rq.data>>,
                                                  state |-> "pending"]}
                              ELSE effects
    /\ UNCHANGED <<payVars, storeVars, cacheVars>>

\* req.body of updateSong
UpdateSongBodies ==
    { [title |-> "y", description |-> Missing],
      [title |-> Missing, description |-> "d1"],
      [title |-> "", description |-> Missing] }

\* the requests to updateSong: every body without a file, one body with a file
UpdateSongInputs ==
    { <<body, FALSE>> : body \in UpdateSongBodies }
      \cup { <<[title |-> Missing, description |-> "d1"], TRUE>> }

\* the sparse payload of updateSong: a key is present when its field is truthy
SongPayload(body) ==
    [ title |-> IF Truthy(body.title) THEN body.title ELSE Missing,
      description |-> IF Truthy(body.description) THEN body.description ELSE Missing ]

\* a store that sets every column of the payload, undefined ones included
UpdatedAlways(old, v) == v

\* a column after .update(payload): the payload travels as JSON, which has
\* no undefined, so a key whose value is undefined is not sent and not set
Updated(old, v) == IF v = Missing THEN old ELSE v

\* the sparse payload applied to a row
ApplySongUpdate(row, body) ==
    [row EXCEPT !.title = Updated(@, SongPayload(body).title),
                !.description = Updated(@, SongPayload(body).description)]

\* a write handler that drops the song's lookup entry from the cache
InvalidatedSongEntry(id) == { <<"songs", "id", id>> }

\* the cache keys a write handler deletes: the handlers never call redis
Invalidated(id) == {}

\* updateSong: one awaited update, then the upload and the answer
UpdateSong(r, id, body, file, ok) ==
    /\ CanBegin(r)
    /\ LET rq == [req[r] EXCEPT !.op = "updateSong", !.p = [id |-> id, body |-> body]]
       IN  IF ~ok
           THEN /\ req' = [req EXCEPT ![r] =
                      Respond(rq, 500, JObject("error", "update songs failed"))]
                /\ UNCHANGED <<songs, effects>>
           ELSE /\ songs' = { IF row.id = id THEN ApplySongUpdate(row, body) ELSE row
                               : row \in songs }
                /\ req' = [req EXCEPT ![r] =
                      Respond(rq, 200, JObject("message", <<"updated", id>>))]
                /\ effects' = IF file
                              THEN effects \cup {[r |-> r, kind |-> "cloudinary.upload",
                                                  target |-> <<"songs", id>>,
                                                  state |-> "pending"]}
                              ELSE effects
    /\ cache' = { e \in cache : e.key \notin Invalidated(id) }
    /\ UNCHANGED <<payVars, artistTable, links, nextSongId, sets, now>>

\* req.body of updateArtist
UpdateArtistBodies ==
    { [name |-> Missing, description |-> "d1"],
      [name |-> "w", description |-> Missing] }

\* the payload of updateArtist: name as it came, the others when truthy
ArtistPayload(body) ==
    [ name |-> body.name,
      description |-> IF Truthy(body.description) THEN body.description ELSE Missing ]

ApplyArtistUpdate(row, body) ==
    [row EXCEPT !.name = Updated(@, ArtistPayload(body).name),
                !.description = Updated(@, ArtistPayload(body).description)]

\* updateArtist: one awaited update, then the answer
UpdateArtist(r, id, body, ok) ==
    /\ CanBegin(r)
    /\ LET rq == [req[r] EXCEPT !.op = "updateArtist",
                             !.p = [artist |-> id, body |-> body]]
       IN  IF ~ok
           THEN /\ req' = [req EXCEPT ![r] =
                      Respond(rq, 500, JObject("error", "update artists failed"))]
                /\ UNCHANGED artistTable
           ELSE /\ artistTable' = [i \in 1..Len(artistTable) |->
                                     IF artistTable[i].id = id
                                     THEN ApplyArtistUpdate(artistTable[i], body)
                                     ELSE artistTable[i]]
                /\ req' = [req EXCEPT ![r] =
                      Respond(rq, 200, JObject("message", <<"updated", id>>))]
    /\ UNCHANGED <<payVars, songs, links, nextSongId, cacheVars, effects>>

\* req.body of addArtist
AddArtistBodies ==
    { [name |-> Missing, description |-> "d1"],
      [name |-> "w", description |-> Missing] }

\* the ids the store has left for new artists
FreshArtistIds == {"c", "d"} \ { artistTable[i].id : i \in 1..Len(artistTable) }

\* addArtist: the name check, one awaited insert, the upload, the answer
AddArtist(r, body, file, ok) ==
    /\ CanBegin(r)
    /\ FreshArtistIds # {}
    /\ LET rq == [req[r] EXCEPT !.op = "addArtist", !.p = [id |-> 0, body |-> body]]
           id == IF "c" \in FreshArtistIds THEN "c" ELSE "d"
       IN  IF ~Truthy(body.name)
           THEN /\ req' = [req EXCEPT ![r] =
                      Respond(rq, 400, JObject("error", "Payload must have field: name"))]
                /\ UNCHANGED <<artistTable, effects>>
           ELSE IF ~ok
           THEN /\ req' = [req EXCEPT ![r] =
                      Respond(rq, 500, JObject("error", "insert artists failed"))]
                /\ UNCHANGED <<artistTable, effects>>
           ELSE /\ artistTable' = Append(artistTable,
                      [ id |-> id, name |-> body.name,
                        description |-> ArtistPayload(body).description ])
                /\ effects' = IF file
                              THEN effects \cup {[r |-> r, kind |-> "cloudinary.upload",
                                                  target |-> <<"artists", id>>,
                                                  state |-> "pending"]}
                              ELSE effects
                /\ req' = [req EXCEPT ![r] =
                      Respond(rq, 201, JObject("message", <<"created", body.name>>))]
    /\ UNCHANGED <<payVars, songs, links, nextSongId, cacheVars>>

\* deleteArtist: one awaited delete, the asset deletion that is not awaited,
\* the answer
DeleteArtist(r, id, ok) ==
    /\ CanBegin(r)
    /\ LET rq == [req[r] EXCEPT !.op = "deleteArtist",
                             !.p = [artist |-> id, body |-> <<>>]]
       IN  IF ~ok
           THEN /\ req' = [req EXCEPT ![r] =
                      Respond(rq, 500, JObject("error", "delete artists failed"))]
                /\ UNCHANGED <<artistTable, effects>>
           ELSE /\ artistTable' = LET Other(row) == row.id # id
                                   IN  SelectSeq(artistTable, Other)
                /\ effects' = effects \cup
                      {[r |-> r, kind |-> "cloudinary.delete",
                        target |-> <<"artists", <<"i-", id>> >>, state |-> "pending"]}
                /\ req' = [req EXCEPT ![r] =
                      Respond(rq, 200, JObject("message", <<"deleted", id>>))]
    /\ UNCHANGED <<payVars, songs, links, nextSongId, cacheVars>>

\* the object key deleteSong hands to backblaze.deleteObject
DeleteObjectKey(row) == <<row.title, ".mp3">>

\* deleteSong: one awaited delete(...).single(), then the two calls that are
\* not awaited, then the answer
DeleteSong(r, id, ok) ==
    /\ CanBegin(r)
    /\ LET rq == [req[r] EXCEPT !.op = "deleteSong"]
           rows == { row \in songs : row.id = id }
       IN  IF ~ok \/ rows = {}
           THEN /\ req' = [req EXCEPT ![r] =
                      Respond(rq, 500, JObject("error", "delete songs failed"))]
                /\ UNCHANGED <<songs, effects>>
           ELSE LET row == CHOOSE x \in rows : TRUE
                IN  /\ songs' = songs \ rows
                    /\ effects' = effects \cup
                          { [r |-> r, kind |-> "backblaze.deleteObject",
                             target |-> DeleteObjectKey(row), state |-> "pending"],
                            [r |-> r, kind |-> "cloudinary.delete",
                             target |-> <<"songs", <<"i-", id>> >>, state |-> "pending"] }
                    /\ req' = [req EXCEPT ![r] =
                          Respond([rq EXCEPT !.data = id], 202,
                                  JObject("message", <<"is being deleted", id>>))]
    /\ cache' = { e \in cache : e.key \notin Invalidated(id) }
    /\ UNCHANGED <<payVars, artistTable, links, nextSongId, sets, now>>

PresignedOps == {"generatePresignedDownloadURL", "generatePresignedUploadURL"}

\* the rows of artistssongs that .match({ relation: "Primary", songid: id }) selects
PrimaryLinks(id) == { row \in BagToSet(links) : row.songid = id /\ row.relation = Primary }

\* how many rows that is
PrimaryRowCount(id) ==
    BagCardinality([ row \in PrimaryLinks(id) |-> CopiesIn(row, links) ])

\* .single() gives its row only when the selection has exactly one
SingleLink(id) == IF PrimaryRowCount(id) = 1 THEN PrimaryLinks(id) ELSE {}

\* `${data.artist.name}/${data.song.title}.mp3`
FileName(artistName, title) == <<artistName, "/", title, ".mp3">>

\* a presigned-URL handler through its first await: the lookup of the
\* Primary link with the embedded artist and song, and the two checks
Presigned(r, op, id, ok) ==
    /\ CanBegin(r)
    /\ LET found == SingleLink(id)
           link == CHOOSE row \in found : TRUE
           song == { row \in songs : row.id = id }
           artist == { i \in 1..Len(artistTable) : artistTable[i].id = link.artistid }
           rq == [req[r] EXCEPT !.op = op,
                                !.p = [ id |-> id, ok |-> ok,
                                        song |-> song # {},
                                        primaries |-> PrimaryRowCount(id),
                                        fileName |-> <<>> ]]
       IN  IF ~ok \/ found = {}
           THEN req' = [req EXCEPT ![r] =
                    Respond(rq, 500, JObject("error", "select artistssongs failed"))]
           ELSE IF song = {} \/ artist = {}
           THEN req' = [req EXCEPT ![r] =
                    Respond(rq, 404, JObject("error", "Artist or Song does not exist"))]
           ELSE req' = [req EXCEPT ![r] =
                    [rq EXCEPT !.pc = "sign",
                               !.p.fileName =
                                  FileName(artistTable[CHOOSE i \in artist : TRUE].name,
                                           (CHOOSE row \in song : TRUE).title)]]
    /\ UNCHANGED <<payVars, storeVars, cacheVars, effects>>

GeneratePresignedDownloadURL(r, id, ok) ==
    Presigned(r, "generatePresignedDownloadURL", id, ok)

GeneratePresignedUploadURL(r, id, ok) ==
    Presigned(r, "generatePresignedUploadURL", id, ok)

\* the awaited backblaze call resolves with the URL, or rejects
PresignedSettles(r, ok) ==
    /\ req[r].op \in PresignedOps /\ req[r].pc = "sign"
    /\ req' = [req EXCEPT ![r] =
          IF ok
          THEN Respond(req[r], 200, JObject("url", <<"url", req[r].p.fileName>>))
          ELSE Respond(req[r], 500, JObject("error", "Error generating pre-signed URL"))]
    /\ UNCHANGED <<payVars, storeVars, cacheVars, effects>>

\* a handler that waits for its side effects and reports their failure
AfterEffectAwaited(rq, ok) ==
    IF ok THEN rq
    ELSE [rq EXCEPT !.resp = <<Response(500, JObject("error", "side effect failed"))>>]

\* what the settling of a call that was not awaited does to its request
AfterEffect(rq, ok) == rq

\* a fire-and-forget call settles, with success or failure
EffectSettles(e, ok) ==
    /\ e \in effects /\ e.state = "pending"
    /\ effects' = (effects \ {e})
                     \cup {[e EXCEPT !.state = IF ok THEN "ok" ELSE "failed"]}
    /\ req' = [req EXCEPT ![e.r] = AfterEffect(req[e.r], ok)]
    /\ UNCHANGED <<payVars, storeVars, cacheVars>>

(***************************************************************************)
(* Read handlers: the six searches, getAllSongs, getSongByID               *)
(***************************************************************************)

\* inputs of the read handlers
AuthHeaders == {"admin-credential", "user-credential"}
Terms == {"x"}
PageLimits == { << <<>>, <<>> >>, << <<"2">>, <<"1">> >> }
NoPaging == { << <<>>, <<>> >> }
\* req.query.page and req.query.limit as they may arrive: absent, "0", a
\* word, a number, a negative number
RawNumbers == { <<>>, <<"0">>, <<"a", "b">>, <<"2">>, <<"-", "1">> }
RawPaging == RawNumbers \X RawNumbers
\* the sets of searchDefault sub-queries that fail together
FailureSets == { {}, {1}, {4}, {2, 5}, {1, 2, 3, 4, 5} }

CacheTtl == 300          \* { ex: 300 }
SongSearchLimit == 20    \* searchSongs default limit, searchDefault songs range
SearchLimit == 30        \* the other searches
SongListLimit == 10      \* getAllSongs default limit

SearchOps == {"searchDefault", "searchSongs", "searchArtists", "searchUsers",
              "searchPlaylists", "searchAlbums"}
SongReadOps == {"getAllSongs", "getSongByID"}

\* tables no handler of the program writes
Playlists == << [id |-> 1, title |-> "x", type |-> "Album"],
                [id |-> 2, title |-> "x", type |-> "Playlist"],
                [id |-> 3, title |-> "y", type |-> "EP"] >>
Profiles == << [id |-> 1, username |-> "x"], [id |-> 2, username |-> "y"] >>

\* utils.enforceRole(req.headers["authorization"])
EnforceRole(authorization) ==
    IF authorization = "admin-credential" THEN "Admin" ELSE "User"

IsDigits(raw) == Len(raw) > 0 /\ \A i \in 1..Len(raw) : \E d \in 1..10 : DigitChars[d] = raw[i]

\* Number(raw) || fallback, for an absent parameter (<<>>), a digit string,
\* a negated digit string, and anything else (NaN)
QueryNumber(raw, fallback) ==
    IF IsDigits(raw)
    THEN (IF ParseInt(raw) = 0 THEN fallback ELSE ParseInt(raw))
    ELSE IF Len(raw) > 1 /\ raw[1] = "-" /\ IsDigits(Tail(raw))
    THEN (IF ParseInt(Tail(raw)) = 0 THEN fallback ELSE 0 - ParseInt(Tail(raw)))
    ELSE fallback

DefaultLimit(op) ==
    IF op = "searchSongs" THEN SongSearchLimit
    ELSE IF op = "getAllSongs" THEN SongListLimit
    ELSE SearchLimit

\* the "cat" of a category search key
Category(op) ==
    CASE op = "searchSongs" -> "songs"
      [] op = "searchArtists" -> "artists"
      [] op = "searchUsers" -> "users"
      [] op = "searchPlaylists" -> "playlists"
      [] op = "searchAlbums" -> "albums"

\* the key template of each handler
CacheKey(op, p) ==
    CASE op = "searchDefault" -> <<"searches", "term", p.term>>
      [] op = "getAllSongs" -> <<"songs", "page", p.page, "limit", p.limit>>
      [] op = "getSongByID" -> <<"songs", "id", p.id>>
      [] OTHER -> <<"searches", "cat", Category(op), "term", p.term,
                    "page", p.page, "limit", p.limit>>

\* a search that consults the cache whatever the role
BypassesCacheNever(op, role) == FALSE

\* role === "Admin" skips redis.get and redis.set; only the searches ask
BypassesCache(op, role) == op \in SearchOps /\ role = "Admin"

RECURSIVE SortById(_)
\* the rows of a table in id order
SortById(rows) ==
    IF rows = {} THEN <<>>
    ELSE LET first == CHOOSE x \in rows : \A y \in rows : x.id <= y.id
         IN  <<first>> \o SortById(rows \ {first})

\* .textSearch(column, term) on one-word columns
Matches(text, term) == text = term

RECURSIVE Filter(_, _, _)
\* the rows of a sequence for which keep[i] holds
Filter(rows, keep, n) ==
    IF n = 0 THEN <<>>
    ELSE Filter(rows, keep, n - 1) \o (IF keep[n] THEN <<rows[n]>> ELSE <<>>)

\* .range(from, to): rows from..to, 0-based and inclusive; bounds that
\* describe no rows of the table select none
Range(rows, from, to) ==
    IF from < 0 \/ to < from \/ from + 1 > Len(rows) THEN <<>>
    ELSE SubSeq(rows, from + 1, IF to + 1 < Len(rows) THEN to + 1 ELSE Len(rows))

SongHits(term) ==
    LET rows == SortById(songs)
    IN  Filter([i \in 1..Len(rows) |-> [id |-> rows[i].id, title |-> rows[i].title]],
               [i \in 1..Len(rows) |-> Matches(rows[i].title, term)], Len(rows))

ArtistHits(term) ==
    Filter([i \in 1..Len(artistTable) |->
               [id |-> artistTable[i].id, name |-> artistTable[i].name]],
           [i \in 1..Len(artistTable) |-> Matches(artistTable[i].name, term)],
           Len(artistTable))

AlbumHits(term) ==
    Filter([i \in 1..Len(Playlists) |-> [id |-> Playlists[i].id, title |-> Playlists[i].title]],
           [i \in 1..Len(Playlists) |->
               Playlists[i].type \in {"Album", "EP", "Single"}
                 /\ Matches(Playlists[i].title, term)],
           Len(Playlists))

PlaylistHits(term) ==
    Filter([i \in 1..Len(Playlists) |-> [id |-> Playlists[i].id, title |-> Playlists[i].title]],
           [i \in 1..Len(Playlists) |->
               Playlists[i].type = "Playlist" /\ Matches(Playlists[i].title, term)],
           Len(Playlists))

UserHits(term) ==
    Filter(Profiles,
           [i \in 1..Len(Profiles) |-> Matches(Profiles[i].username, term)],
           Len(Profiles))

\* the sub-queries of searchDefault in the order of its Promise.all
SubQueries == <<"songs", "artists", "albums", "playlists", "users">>

\* the bounds handed to .range: (page - 1) * limit, page * limit - 1
RangeFrom(p) == (p.page - 1) * p.limit
RangeTo(p) == p.page * p.limit - 1

\* what the store answers now when the query of a handler succeeds
StoreAnswer(op, p) ==
    LET from == RangeFrom(p)
        to == RangeTo(p)
    IN  CASE op = "searchDefault" ->
               [ songs     |-> JArray(Range(SongHits(p.term), 0, SongSearchLimit - 1)),
                 artists   |-> JArray(Range(ArtistHits(p.term), 0, SearchLimit - 1)),
                 albums    |-> JArray(Range(AlbumHits(p.term), 0, SearchLimit - 1)),
                 playlists |-> JArray(Range(PlaylistHits(p.term), 0, SearchLimit - 1)),
                 users     |-> JArray(Range(UserHits(p.term), 0, SearchLimit - 1)) ]
          [] op = "searchSongs" -> JArray(Range(SongHits(p.term), from, to))
          [] op = "searchArtists" -> JArray(Range(ArtistHits(p.term), from, to))
          [] op = "searchUsers" -> JArray(Range(UserHits(p.term), from, to))
          [] op = "searchPlaylists" -> JArray(Range(PlaylistHits(p.term), from, to))
          [] op = "searchAlbums" -> JArray(Range(AlbumHits(p.term), from, to))
          [] op = "getAllSongs" -> JArray(Range(SortById(songs), from, to))
          [] op = "getSongByID" -> CHOOSE row \in songs : row.id = p.id

\* the sub-queries the store fails: .single() of getSongByID needs its row
QueryFailures(op, p, failed) ==
    IF op = "getSongByID" /\ ~\E row \in songs : row.id = p.id
    THEN {1}
    ELSE failed

\* error.message of a failed sub-query of searchDefault
SubQueryMessage(i) == <<"failed", SubQueries[i]>>

\* an error body that reports only the first failed sub-query
ErrorBodyFirstOnly(op, failed) ==
    LET first == CHOOSE i \in failed : \A j \in failed : i <= j
    IN  IF op = "searchDefault"
        THEN JObject("error", <<SubQueryMessage(first)>>)
        ELSE JObject("error", <<"failed", op>>)

\* { error: errors.map((e) => e?.message) } of searchDefault,
\* { error: error.message } of the other handlers
ErrorBody(op, failed) ==
    IF op = "searchDefault"
    THEN JObject("error",
            Filter([i \in 1..5 |-> SubQueryMessage(i)],
                   [i \in 1..5 |-> i \in failed], 5))
    ELSE JObject("error", <<"failed", op>>)

\* the body of the 200 of a miss
SuccessBody(op, data) == JObject("data", data)

\* the value handed to redis.set
CacheValue(op, data) ==
    IF op = "searchDefault" THEN JObject("data", data)
    ELSE IF op \in SongReadOps THEN JString(data)
    ELSE data

\* what redis.get gives back for a stored value
RedisGet(value) == value

IdleRead ==
    [ op      |-> "none",
      pc      |-> "idle",  \* idle, get, query, done, threw
      role    |-> "none",
      p       |-> <<>>,    \* term, page, limit, id
      data    |-> 0,       \* of the write handlers
      pending |-> {},
      errors  |-> {},
      key     |-> <<>>,
      resp    |-> <<>>,
      failed  |-> {},      \* the sub-queries that returned an error
      hit     |-> FALSE,   \* answered with the cached value
      origin  |-> <<>>,    \* on a hit: the body sent by the request that cached it
      lag     |-> 0,       \* on a hit: seconds since the store last answered so
      recent  |-> FALSE,   \* arrived within CacheTtl of a 200 to the same request
      gets    |-> 0,       \* redis.get calls issued
      puts    |-> 0,       \* redis.set calls issued
      queries |-> 0,       \* store queries issued
      ended   |-> 0 ]      \* clock when the response was sent

\* some earlier identical request of a non-Admin caller was answered 200 no
\* more than CacheTtl seconds ago
AnsweredRecently(r, key) ==
    \E q \in Reqs :
        /\ q # r
        /\ req[q].pc = "done" /\ req[q].key = key /\ req[q].role # "Admin"
        /\ req[q].resp[1].status = 200
        /\ now - req[q].ended < CacheTtl

LiveEntries(key) == { e \in cache : e.key = key /\ now < e.expires }

\* the handlers that write the store, and the moments they did
WriteOps == {"addSong", "updateSong", "deleteSong",
             "addArtist", "updateArtist", "deleteArtist"}
StoreChanges ==
    { req[w].ended : w \in { q \in Reqs : /\ req[q].op \in WriteOps
                                          /\ req[q].pc = "done"
                                          /\ req[q].resp[1].status < 300 } }

\* for how long the store has not given the answer the entry e holds: 0 when
\* it gives it now, else at least the time since the latest write
StaleFor(rq, e) ==
    IF /\ QueryFailures(rq.op, rq.p, {}) = {}
       /\ e.sent = JObject("data", StoreAnswer(rq.op, rq.p))
    THEN 0
    ELSE now - (CHOOSE t \in StoreChanges : \A u \in StoreChanges : u <= t)

\* `await redis.get(key)` settles: it rejects, or gives the entry or null
AfterGet(rq, ok, frameworkAnswers) ==
    LET found == LiveEntries(rq.key)
        asked == [rq EXCEPT !.gets = 1, !.ended = now]
    IN  IF ~ok THEN Throw(asked, frameworkAnswers)
        ELSE IF found # {}
        THEN LET e == CHOOSE x \in found : TRUE
             IN  [Respond(asked, 200, RedisGet(e.value))
                     EXCEPT !.hit = TRUE, !.origin = e.sent, !.lag = StaleFor(rq, e)]
        ELSE [asked EXCEPT !.pc = "query"]

\* a handler that writes the cache whatever the query returned
CachesAnyAnswer(op, role, failed) == ~BypassesCache(op, role)

\* whether the handler reaches its redis.set: the error branch returns
\* before it, and an Admin caller skips it
CachesAnswer(op, role, failed) == failed = {} /\ ~BypassesCache(op, role)

\* the awaited store query settles; on success redis.set is dispatched,
\* not awaited, and the 200 is sent
AfterQuery(r, rq, failures) ==
    LET failed == QueryFailures(rq.op, rq.p, failures)
        data == StoreAnswer(rq.op, rq.p)
        body == IF failed # {} THEN ErrorBody(rq.op, failed) ELSE SuccessBody(rq.op, data)
        caches == CachesAnswer(rq.op, rq.role, failed)
        asked == [rq EXCEPT !.failed = failed,
                            !.queries = IF rq.op = "searchDefault" THEN 5 ELSE 1,
                            !.puts = IF caches THEN 1 ELSE @]
    IN  /\ req' = [req EXCEPT ![r] =
               Respond(asked, IF failed # {} THEN 500 ELSE 200, body)]
        /\ sets' = IF caches
                   THEN sets \cup {[ r |-> r, key |-> rq.key, sent |-> body,
                                     value |-> CacheValue(rq.op, data) ]}
                   ELSE sets

\* a read handler through its first await: redis.get, or for a caller that
\* bypasses the cache the store query
ReadBegin(r, op, authorization, term, rawPage, rawLimit, id, ok, frameworkAnswers, failures) ==
    /\ CanBegin(r)
    /\ LET role == EnforceRole(authorization)
           p == [ term |-> term, id |-> id, raw |-> <<rawPage, rawLimit>>,
                  page |-> QueryNumber(rawPage, 1),
                  limit |-> QueryNumber(rawLimit, DefaultLimit(op)) ]
           rq == [req[r] EXCEPT !.op = op, !.role = role, !.p = p,
                                !.key = CacheKey(op, p),
                                !.recent = AnsweredRecently(r, CacheKey(op, p))]
       IN  IF BypassesCache(op, role)
           THEN AfterQuery(r, rq, failures)
           ELSE /\ req' = [req EXCEPT ![r] = AfterGet(rq, ok, frameworkAnswers)]
                /\ UNCHANGED sets
    /\ UNCHANGED <<payVars, storeVars, cache, now, effects>>

\* the store query of a handler that missed the cache
StoreQuery(r, failures) ==
    /\ req[r].pc = "query"
    /\ AfterQuery(r, req[r], failures)
    /\ UNCHANGED <<payVars, storeVars, cache, now, effects>>

\* the sets of sub-queries that may fail in one query of a handler
QueryOutcomes(op) == IF op = "searchDefault" THEN FailureSets ELSE {{}, {1}}

\* the outcomes of the first await of a request: redis.get resolves or
\* rejects (and then the framework answers or not), or, for a caller that
\* bypasses the cache, the sub-queries that fail
Outcomes(op, authorization) ==
    IF BypassesCache(op, EnforceRole(authorization))
    THEN [ok : {TRUE}, fw : {FALSE}, failures : QueryOutcomes(op)]
    ELSE [ok : BOOLEAN, fw : BOOLEAN, failures : {{}}]

SearchDefault(r, authorization, term, o) ==
    ReadBegin(r, "searchDefault", authorization, term, <<>>, <<>>, 0,
              o.ok, o.fw, o.failures)
SearchSongs(r, authorization, term, rawPage, rawLimit, o) ==
    ReadBegin(r, "searchSongs", authorization, term, rawPage, rawLimit, 0,
              o.ok, o.fw, o.failures)
SearchArtists(r, authorization, term, rawPage, rawLimit, o) ==
    ReadBegin(r, "searchArtists", authorization, term, rawPage, rawLimit, 0,
              o.ok, o.fw, o.failures)
SearchUsers(r, authorization, term, rawPage, rawLimit, o) ==
    ReadBegin(r, "searchUsers", authorization, term, rawPage, rawLimit, 0,
              o.ok, o.fw, o.failures)
SearchPlaylists(r, authorization, term, rawPage, rawLimit, o) ==
    ReadBegin(r, "searchPlaylists", authorization, term, rawPage, rawLimit, 0,
              o.ok, o.fw, o.failures)
SearchAlbums(r, authorization, term, rawPage, rawLimit, o) ==
    ReadBegin(r, "searchAlbums", authorization, term, rawPage, rawLimit, 0,
              o.ok, o.fw, o.failures)
GetAllSongs(r, authorization, rawPage, rawLimit, o) ==
    ReadBegin(r, "getAllSongs", authorization, "", rawPage, rawLimit, 0,
              o.ok, o.fw, o.failures)
GetSongByID(r, authorization, id, o) ==
    ReadBegin(r, "getSongByID", authorization, "", <<>>, <<>>, id,
              o.ok, o.fw, o.failures)

\* a dispatched redis.set reaches redis, or fails
CacheSetSettles(s, ok) ==
    /\ s \in sets
    /\ sets' = sets \ {s}
    /\ cache' = IF ok
                THEN { e \in cache : e.key # s.key }
                        \cup {[ key |-> s.key, value |-> s.value, sent |-> s.sent,
                                expires |-> now + CacheTtl ]}
                ELSE cache
    /\ UNCHANGED <<payVars, storeVars, now, req, effects>>

TickStep == CacheTtl \div 2

\* time passes; redis drops the entries that expired
Tick ==
    /\ now < MaxTicks * TickStep
    /\ now' = now + TickStep
    /\ cache' = { e \in cache : now' < e.expires }
    /\ UNCHANGED <<payVars, storeVars, sets, req, effects>>

\* the store holds one song with its Primary link when the process starts
InitialSongs == {[id |-> 1, title |-> "x", description |-> "d0"]}
InitialLinks == SetToBag({[songid |-> 1, artistid |-> "a", relation |-> Primary]})
InitialArtists == << [id |-> "a", name |-> "x", description |-> "d0"],
                     [id |-> "b", name |-> "z", description |-> "d0"] >>

SongIds == { row.id : row \in songs } \cup {nextSongId}

NextSongs ==
    \/ \E r \in Reqs, in \in AddSongInputs, ok \in BOOLEAN, fw \in BOOLEAN :
          AddSong(r, in[1], in[2], ok, fw)
    \/ \E r \in Reqs, i \in 1..2, ok \in BOOLEAN : LinkInsertSettles(r, i, ok)
    \/ \E r \in Reqs : AddSongFinish(r)
    \/ \E r \in Reqs, id \in SongIds, in \in UpdateSongInputs, ok \in BOOLEAN :
          UpdateSong(r, id, in[1], in[2], ok)
    \/ \E r \in Reqs, id \in ArtistIds, body \in UpdateArtistBodies, ok \in BOOLEAN :
          UpdateArtist(r, id, body, ok)
    \/ \E r \in Reqs, id \in SongIds, ok \in BOOLEAN : DeleteSong(r, id, ok)
    \/ \E e \in effects, ok \in BOOLEAN : EffectSettles(e, ok)

InitPay ==
    /\ orderID \in { ConstructorOrderID(ms) : ms \in StartMillis }
    /\ today = 1
    /\ call = [c \in Calls |-> IdleCall]
    /\ started = 0
    /\ callbacks = 0
    /\ lastCallback = NoCallback
    /\ songs = InitialSongs
    /\ artistTable = InitialArtists
    /\ links = InitialLinks
    /\ nextSongId = 2
    /\ cache = {}
    /\ sets = {}
    /\ now = 0
    /\ req = <<>>
    /\ effects = {}

InitSongs ==
    /\ orderID = ConstructorOrderID(1000000008)
    /\ today = 1
    /\ call = [c \in Calls |-> IdleCall]
    /\ started = 0
    /\ callbacks = 0
    /\ lastCallback = NoCallback
    /\ songs = InitialSongs
    /\ artistTable = InitialArtists
    /\ links = InitialLinks
    /\ nextSongId = 2
    /\ cache = {}
    /\ sets = {}
    /\ now = 0
    /\ req = [r \in 1..MaxSongReqs |-> IdleReq]
    /\ effects = {}

\* the searches, with one updateSong that renames the song
NextSearch ==
    \/ \E r \in Reqs, auth \in AuthHeaders, term \in Terms :
          \E o \in Outcomes("searchDefault", auth) :
              SearchDefault(r, auth, term, o)
    \/ \E r \in Reqs, auth \in AuthHeaders, term \in Terms, pl \in PageLimits :
          \E o \in Outcomes("searchSongs", auth) :
              SearchSongs(r, auth, term, pl[1], pl[2], o)
    \/ \E r \in Reqs, auth \in AuthHeaders, term \in Terms, pl \in NoPaging :
          \E o \in Outcomes("searchArtists", auth) :
              SearchArtists(r, auth, term, pl[1], pl[2], o)
    \/ \E r \in Reqs, auth \in AuthHeaders, term \in Terms, pl \in NoPaging :
          \E o \in Outcomes("searchUsers", auth) :
              SearchUsers(r, auth, term, pl[1], pl[2], o)
    \/ \E r \in Reqs, auth \in AuthHeaders, term \in Terms, pl \in NoPaging :
          \E o \in Outcomes("searchPlaylists", auth) :
              SearchPlaylists(r, auth, term, pl[1], pl[2], o)
    \/ \E r \in Reqs, auth \in AuthHeaders, term \in Terms, pl \in NoPaging :
          \E o \in Outcomes("searchAlbums", auth) :
              SearchAlbums(r, auth, term, pl[1], pl[2], o)
    \/ \E r \in Reqs : \E failures \in QueryOutcomes(req[r].op) :
          StoreQuery(r, failures)
    \/ \E s \in sets, ok \in BOOLEAN : CacheSetSettles(s, ok)
    \/ \E r \in Reqs, ok \in BOOLEAN :
          /\ Cardinality({ q \in Reqs : req[q].op = "updateSong" }) < MaxWrites
          /\ UpdateSong(r, 1, [title |-> "y", description |-> Missing], FALSE, ok)

InitSearch ==
    /\ orderID = ConstructorOrderID(1000000008)
    /\ today = 1
    /\ call = [c \in Calls |-> IdleCall]
    /\ started = 0
    /\ callbacks = 0
    /\ lastCallback = NoCallback
    /\ songs = InitialSongs
    /\ artistTable = InitialArtists
    /\ links = InitialLinks
    /\ nextSongId = 2
    /\ cache = {}
    /\ sets = {}
    /\ now = 0
    /\ req = [r \in 1..MaxSearchReqs |-> IdleRead]
    /\ effects = {}

\* the song listing and lookup, with redis, the clock and one concurrent update
NextSongReads ==
    \/ \E r \in Reqs, auth \in AuthHeaders, pl \in PageLimits :
          \E o \in Outcomes("getAllSongs", auth) :
              GetAllSongs(r, auth, pl[1], pl[2], o)
    \/ \E r \in Reqs, auth \in AuthHeaders, id \in SongIds :
          \E o \in Outcomes("getSongByID", auth) :
              GetSongByID(r, auth, id, o)
    \/ \E r \in Reqs : \E failures \in QueryOutcomes(req[r].op) : StoreQuery(r, failures)
    \/ \E s \in sets, ok \in BOOLEAN : CacheSetSettles(s, ok)
    \/ Tick
    \/ \E r \in Reqs, ok \in BOOLEAN :
          /\ Cardinality({ q \in Reqs : req[q].op = "updateSong" }) < MaxWrites
          /\ UpdateSong(r, 1, [title |-> "y", description |-> Missing], FALSE, ok)

InitSongReads ==
    /\ orderID = ConstructorOrderID(1000000008)
    /\ today = 1
    /\ call = [c \in Calls |-> IdleCall]
    /\ started = 0
    /\ callbacks = 0
    /\ lastCallback = NoCallback
    /\ songs = InitialSongs
    /\ artistTable = InitialArtists
    /\ links = InitialLinks
    /\ nextSongId = 2
    /\ cache = {}
    /\ sets = {}
    /\ now = 0
    /\ req = [r \in 1..MaxSongReqs |-> IdleRead]
    /\ effects = {}

\* fewer than MaxWrites requests went to a handler that writes the store
MayWrite == Cardinality({ q \in Reqs : req[q].op \in WriteOps }) < MaxWrites

\* the song lookup with redis and the clock, next to the handlers that write
\* the store
NextSongCache ==
    \/ \E r \in Reqs : \E o \in Outcomes("getSongByID", "user-credential") :
          GetSongByID(r, "user-credential", 1, o)
    \/ \E r \in Reqs : \E failures \in QueryOutcomes(req[r].op) : StoreQuery(r, failures)
    \/ \E s \in sets, ok \in BOOLEAN : CacheSetSettles(s, ok)
    \/ Tick
    \/ \E r \in Reqs, ok \in BOOLEAN :
          MayWrite /\ UpdateSong(r, 1, [title |-> "y", description |-> Missing], FALSE, ok)
    \/ \E r \in Reqs, ok \in BOOLEAN : MayWrite /\ DeleteSong(r, 1, ok)
    \/ \E r \in Reqs, ok \in BOOLEAN :
          MayWrite /\ AddSong(r, [title |-> "y", description |-> Missing, artists |-> <<"a">>],
                              FALSE, ok, FALSE)
    \/ \E r \in Reqs, ok \in BOOLEAN : LinkInsertSettles(r, 1, ok)
    \/ \E r \in Reqs : AddSongFinish(r)
    \/ \E r \in Reqs, ok \in BOOLEAN :
          MayWrite /\ AddArtist(r, [name |-> "w", description |-> Missing], FALSE, ok)
    \/ \E r \in Reqs, ok \in BOOLEAN :
          MayWrite /\ UpdateArtist(r, "a", [name |-> "w", description |-> Missing], ok)
    \/ \E r \in Reqs, ok \in BOOLEAN : MayWrite /\ DeleteArtist(r, "b", ok)
    \/ \E e \in effects, ok \in BOOLEAN : EffectSettles(e, ok)

InitSongCache ==
    /\ orderID = ConstructorOrderID(1000000008)
    /\ today = 1
    /\ call = [c \in Calls |-> IdleCall]
    /\ started = 0
    /\ callbacks = 0
    /\ lastCallback = NoCallback
    /\ songs = InitialSongs
    /\ artistTable = InitialArtists
    /\ links = InitialLinks
    /\ nextSongId = 2
    /\ cache = {}
    /\ sets = {}
    /\ now = 0
    /\ req = [r \in 1..MaxSearchReqs |-> IdleRead]
    /\ effects = {}

\* the presigned-URL handlers next to the handlers that create and delete songs
NextBlob ==
    \/ \E r \in Reqs, id \in 1..nextSongId, ok \in BOOLEAN : GeneratePresignedDownloadURL(r, id, ok)
    \/ \E r \in Reqs, id \in 1..nextSongId, ok \in BOOLEAN : GeneratePresignedUploadURL(r, id, ok)
    \/ \E r \in Reqs, ok \in BOOLEAN : PresignedSettles(r, ok)
    \/ \E r \in Reqs, artists \in {<<>>, <<"b">>}, ok \in BOOLEAN :
          AddSong(r, [title |-> "y", description |-> Missing, artists |-> artists],
                  FALSE, ok, FALSE)
    \/ \E r \in Reqs, ok \in BOOLEAN : LinkInsertSettles(r, 1, ok)
    \/ \E r \in Reqs : AddSongFinish(r)
    \/ \E r \in Reqs, id \in SongIds, ok \in BOOLEAN : DeleteSong(r, id, ok)
    \/ \E e \in effects, ok \in BOOLEAN : EffectSettles(e, ok)

InitBlob ==
    /\ orderID = ConstructorOrderID(1000000008)
    /\ today = 1
    /\ call = [c \in Calls |-> IdleCall]
    /\ started = 0
    /\ callbacks = 0
    /\ lastCallback = NoCallback
    /\ songs = InitialSongs
    /\ artistTable = InitialArtists
    /\ links = InitialLinks
    /\ nextSongId = 2
    /\ cache = {}
    /\ sets = {}
    /\ now = 0
    /\ req = [r \in 1..MaxSearchReqs |-> IdleReq]
    /\ effects = {}

\* the category searches with every kind of page and limit parameter
NextPaging ==
    \/ \E r \in Reqs, auth \in AuthHeaders, term \in Terms, pl \in RawPaging :
          \E o \in Outcomes("searchSongs", auth) :
              SearchSongs(r, auth, term, pl[1], pl[2], o)
    \/ \E r \in Reqs, auth \in AuthHeaders, term \in Terms, pl \in RawPaging :
          \E o \in Outcomes("searchArtists", auth) :
              SearchArtists(r, auth, term, pl[1], pl[2], o)
    \/ \E r \in Reqs, auth \in AuthHeaders, term \in Terms, pl \in RawPaging :
          \E o \in Outcomes("searchUsers", auth) :
              SearchUsers(r, auth, term, pl[1], pl[2], o)
    \/ \E r \in Reqs, auth \in AuthHeaders, term \in Terms, pl \in RawPaging :
          \E o \in Outcomes("searchPlaylists", auth) :
              SearchPlaylists(r, auth, term, pl[1], pl[2], o)
    \/ \E r \in Reqs, auth \in AuthHeaders, term \in Terms, pl \in RawPaging :
          \E o \in Outcomes("searchAlbums", auth) :
              SearchAlbums(r, auth, term, pl[1], pl[2], o)
    \/ \E r \in Reqs : \E failures \in QueryOutcomes(req[r].op) :
          StoreQuery(r, failures)
    \/ \E s \in sets, ok \in BOOLEAN : CacheSetSettles(s, ok)

InitPaging ==
    /\ orderID = ConstructorOrderID(1000000008)
    /\ today = 1
    /\ call = [c \in Calls |-> IdleCall]
    /\ started = 0
    /\ callbacks = 0
    /\ lastCallback = NoCallback
    /\ songs = InitialSongs
    /\ artistTable = InitialArtists
    /\ links = InitialLinks
    /\ nextSongId = 2
    /\ cache = {}
    /\ sets = {}
    /\ now = 0
    /\ req = [r \in 1..MaxPagingReqs |-> IdleRead]
    /\ effects = {}

SpecPay == InitPay /\ [][NextPay]_vars

SpecPaging == InitPaging /\ [][NextPaging]_vars

SpecBlob == InitBlob /\ [][NextBlob]_vars

SpecSongCache == InitSongCache /\ [][NextSongCache]_vars

SpecSongReads == InitSongReads /\ [][NextSongReads]_vars

SpecSearch == InitSearch /\ [][NextSearch]_vars


SpecSongs == InitSongs /\ [][NextSongs]_vars

\* the steps of an invocation that has begun: a store call or a side effect
\* settles and the continuation behind it runs
ContinueSongs ==
    \/ \E r \in Reqs, i \in 1..2, ok \in BOOLEAN : LinkInsertSettles(r, i, ok)
    \/ \E r \in Reqs : AddSongFinish(r)
    \/ \E e \in effects, ok \in BOOLEAN : EffectSettles(e, ok)

\* every call that is awaited settles, and the event loop runs every
\* continuation that is ready; nothing obliges a client to send a request
FairSongs == SpecSongs /\ WF_vars(ContinueSongs)

(***************************************************************************)
(* Properties of the search handlers                                       *)
(***************************************************************************)

Searches == { r \in Reqs : req[r].op \in SearchOps }

\* C1: the body a non-Admin caller gets on a cache hit of a search equals
\* the body the miss path sent when it wrote that cache entry.
C1_HitEqualsMissBody ==
    \A r \in Searches :
        (req[r].hit /\ req[r].role # "Admin") => req[r].resp[1].body = req[r].origin

\* C2: a non-Admin search that arrives within CacheTtl seconds after an
\* identical search was answered 200 is served from the cache and issues no
\* store query, whenever the earlier request's redis.set reaches redis.
C2_SecondServedFromCache ==
    \A r \in Searches :
        (req[r].role # "Admin" /\ req[r].recent /\ req[r].pc = "done") =>
            (req[r].hit /\ req[r].queries = 0)

\* C3: a search by an Admin caller issues no redis.get and no redis.set,
\* queries the store in the step it is handled, and a 200 carries what the
\* store answers at that moment, whatever the cache holds.
C3_AdminAlwaysLive ==
    /\ [](\A r \in Searches :
            req[r].role = "Admin" =>
                /\ req[r].gets = 0 /\ req[r].puts = 0 /\ ~req[r].hit
                /\ req[r].pc = "done"
                /\ req[r].queries = (IF req[r].op = "searchDefault" THEN 5 ELSE 1)
                /\ \A s \in sets : s.r # r)
    /\ [][\A r \in Reqs :
            (req[r].pc = "idle" /\ req'[r].op \in SearchOps /\ req'[r].role = "Admin") =>
                /\ cache' = cache /\ sets' = sets
                /\ req'[r].failed = {} =>
                      req'[r].resp = <<Response(200,
                          JObject("data", StoreAnswer(req'[r].op, req'[r].p)))>>]_vars

\* an Admin search was answered 200 with a body that differs from what a
\* live cache entry of the same key would have given
C3_Witness ==
    \E r \in Searches :
        /\ req[r].role = "Admin" /\ req[r].pc = "done"
        /\ req[r].resp[1].status = 200
        /\ \E e \in LiveEntries(req[r].key) : e.sent # req[r].resp[1].body

\* C4: a failing redis.get or redis.set never fails a read request: the
\* handler goes on as on a miss, it does not die of the cache error.
C4_CacheFailureIsAMiss ==
    \A r \in Reqs :
        req[r].op \in SearchOps \cup SongReadOps => req[r].pc # "threw"

\* C5: a searchDefault in which the sub-queries of the set `failed` return an
\* error answers 500 with an error list of exactly one message per failed
\* sub-query, has no data field, and writes nothing to the cache.
C5_AllErrorsReported ==
    \A r \in Searches :
        (req[r].op = "searchDefault" /\ req[r].pc = "done" /\ req[r].failed # {}) =>
            LET body == req[r].resp[1].body
            IN  /\ Len(req[r].resp) = 1
                /\ req[r].resp[1].status = 500
                /\ Len(body) = 3 /\ body[1] = "object" /\ body[2] = "error"
                /\ Len(body[3]) = Cardinality(req[r].failed)
                /\ \A i \in req[r].failed :
                      \E j \in 1..Len(body[3]) : body[3][j] = SubQueryMessage(i)
                /\ req[r].puts = 0
                /\ \A s \in sets : s.r # r

\* a searchDefault with exactly one failing sub-query, and one with two
C5_Witness ==
    \E r, q \in Searches :
        /\ req[r].op = "searchDefault" /\ req[r].pc = "done" /\ req[r].failed = {4}
        /\ req[r].resp[1].body = JObject("error", <<SubQueryMessage(4)>>)
        /\ req[q].op = "searchDefault" /\ req[q].pc = "done" /\ req[q].failed = {2, 5}

\* C19: a search that ended in a failure response, or died, has issued no
\* redis.set, and every search entry in redis or on its way there holds the
\* data of a 200 response, never an error body.
C19_FailuresNotCached ==
    /\ \A r \in Searches :
          (req[r].pc = "threw" \/ (req[r].pc = "done" /\ req[r].resp[1].status # 200)) =>
              (req[r].puts = 0 /\ \A s \in sets : s.r # r)
    /\ \A s \in sets : req[s.r].failed = {} /\ req[s.r].resp[1].status = 200
    /\ \A e \in cache \cup sets :
          e.key[1] = "searches" =>
              /\ e.sent[1] = "object" /\ e.sent[2] = "data"
              /\ e.value \in {e.sent, e.sent[3]}

\* a non-Admin search failed, and the same search by the next caller missed
\* the cache and was answered from the store
C19_Witness ==
    \E r, q \in Searches :
        /\ r < q /\ req[r].key = req[q].key
        /\ req[r].role = "User" /\ req[q].role = "User"
        /\ req[r].pc = "done" /\ req[r].resp[1].status = 500 /\ req[r].failed # {}
        /\ req[q].pc = "done" /\ req[q].resp[1].status = 200
        /\ ~req[q].hit /\ req[q].queries >= 1

\* a raw parameter that is absent, zero or not a number
FallsBack(raw) == raw \in { <<>>, <<"0">>, <<"a", "b">> }

\* C18: the range a category search asks the store for starts at
\* (page - 1) * limit, which is never negative, and covers exactly limit
\* rows, at least one; the next page starts right after it; and an absent,
\* zero or non-numeric page or limit is replaced by 1 or by the default limit
\* of the category.
C18_PagingRange ==
    \A r \in Searches :
        (req[r].op # "searchDefault") =>
            LET p == req[r].p
            IN  /\ RangeFrom(p) = (p.page - 1) * p.limit
                /\ RangeTo(p) - RangeFrom(p) + 1 = p.limit
                /\ RangeFrom([p EXCEPT !.page = @ + 1]) = RangeTo(p) + 1
                /\ FallsBack(p.raw[1]) => p.page = 1
                /\ FallsBack(p.raw[2]) =>
                      p.limit = (IF req[r].op = "searchSongs" THEN 20 ELSE 30)
                /\ RangeFrom(p) >= 0
                /\ p.limit >= 1

SongReads == { r \in Reqs : req[r].op \in SongReadOps }

\* C12: a payload served from the cache to a non-Admin caller is what the
\* store answered to the same query at some moment of the last CacheTtl
\* seconds before the response.
C12_BoundedStaleness ==
    \A r \in Reqs :
        (req[r].op \in SearchOps \cup SongReadOps /\ req[r].hit /\ req[r].role # "Admin")
            => req[r].lag <= CacheTtl

\* C13: a getAllSongs or getSongByID of an Admin caller issues no redis.get
\* and no redis.set and is never answered from the cache.
C13_AdminSongReadsUncached ==
    \A r \in SongReads :
        req[r].role = "Admin" =>
            /\ req[r].gets = 0 /\ req[r].puts = 0 /\ ~req[r].hit
            /\ \A s \in sets : s.r # r

\* C20: no step of addSong, updateSong, deleteSong, addArtist, updateArtist
\* or deleteArtist changes a cache entry or a pending cache write, and a
\* getSongByID that finds a live entry answers with the row that entry
\* holds, whatever the store holds by then.
C20_WritesLeaveCache ==
    /\ [][\A r \in Reqs :
            (req'[r].op \in WriteOps /\ req'[r] # req[r]) =>
                (cache' = cache /\ sets' = sets)]_vars
    /\ [][\A r \in Reqs :
            (/\ req[r].pc = "idle" /\ req'[r].op = "getSongByID"
             /\ req'[r].pc # "threw" /\ LiveEntries(req'[r].key) # {}) =>
                /\ req'[r].hit /\ req'[r].queries = 0
                /\ \E e \in LiveEntries(req'[r].key) :
                      req'[r].resp = <<Response(200, e.value)>>]_vars

\* after an updateSong that was answered 200 a getSongByID was served the
\* row as it was before the update
C20_Witness ==
    \E r, w \in Reqs :
        /\ req[w].op = "updateSong" /\ req[w].resp # <<>> /\ req[w].resp[1].status = 200
        /\ req[r].op = "getSongByID" /\ req[r].hit
        /\ req[r].resp[1].body = JString([id |-> 1, title |-> "x", description |-> "d0"])
        /\ \E row \in songs : row.id = 1 /\ row.title = "y"
        /\ req[r].lag > 0

\* the same after a deleteSong that was answered 202
C20_WitnessDeleted ==
    \E r, w \in Reqs :
        /\ req[w].op = "deleteSong" /\ req[w].resp # <<>> /\ req[w].resp[1].status = 202
        /\ req[r].op = "getSongByID" /\ req[r].hit /\ req[r].lag > 0
        /\ songs = {}

(***************************************************************************)
(* Properties of the song handlers                                         *)
(***************************************************************************)

\* the link rows of one song
LinksOf(songid) ==
    [ row \in { x \in BagToSet(links) : x.songid = songid } |-> CopiesIn(row, links) ]

RECURSIVE ExpectedLinks(_, _, _)
\* the rows the claim expects for the first n artists of the list
ExpectedLinks(songid, artists, n) ==
    IF n = 0 THEN EmptyBag
    ELSE ExpectedLinks(songid, artists, n - 1)
           (+) SetToBag({[songid |-> songid, artistid |-> artists[n],
                          relation |-> IF n = 1 THEN Primary ELSE Featured]})

PrimaryCount(songid) ==
    BagCardinality([ row \in { x \in BagToSet(links) :
                                  x.songid = songid /\ x.relation = Primary }
                       |-> CopiesIn(row, links) ])

\* addSong answered 201 and the song it created is still in the store
Created(r) ==
    /\ req[r].op = "addSong" /\ req[r].pc = "done"
    /\ req[r].resp[1].status = 201
    /\ \E row \in songs : row.id = req[r].data

\* C6: addSong with a non-empty artist list [a1..an], all inserts succeeding,
\* leaves exactly n link rows for the new song: a1 Primary, a2..an Featured,
\* whatever the order in which the concurrent inserts settled.
C6_FirstArtistPrimary ==
    \A r \in Reqs :
        (Created(r) /\ Len(req[r].p.body.artists) >= 1) =>
            LET artists == req[r].p.body.artists
                id == req[r].data
            IN  /\ BagCardinality(LinksOf(id)) = Len(artists)
                /\ LinksOf(id) = ExpectedLinks(id, artists, Len(artists))
                /\ PrimaryCount(id) = 1
                /\ CopiesIn([songid |-> id, artistid |-> artists[1],
                             relation |-> Primary], links) = 1

\* two songs were created from the same two artists in opposite orders
C6_Witness ==
    \E r, q \in Reqs :
        /\ Created(r) /\ req[r].p.body.artists = <<"a", "b">>
        /\ Created(q) /\ req[q].p.body.artists = <<"b", "a">>

Quiescent == \A r \in Reqs : req[r].pc \in {"idle", "done", "threw"}

\* C7: after any sequence of addSong, updateSong and deleteSong, every song
\* row in the store has exactly one link row with relation Primary.
C7_ExactlyOnePrimary ==
    Quiescent => \A row \in songs : PrimaryCount(row.id) = 1

RowDeleted(r) == req[r].op = "deleteSong" /\ req[r].data # 0

EffectsOf(r, state) == { e \in effects : e.r = r /\ e.state = state }

\* C10: once the row deletion succeeded, deleteSong has answered 202, with
\* the blob and asset deletions still pending, succeeded or failed; their
\* settling changes nothing in the response.
C10_DeleteAnswersDespiteEffects ==
    \A r \in Reqs :
        RowDeleted(r) =>
            /\ req[r].pc = "done"
            /\ Len(req[r].resp) = 1
            /\ req[r].resp[1].status = 202

\* a delete answered 202 and both of its side effects failed
C10_Witness ==
    \E r \in Reqs :
        /\ RowDeleted(r)
        /\ req[r].resp[1].status = 202
        /\ { e.kind : e \in EffectsOf(r, "failed") }
              = {"backblaze.deleteObject", "cloudinary.delete"}

\* C17: an addSong whose song row was inserted and in which some link insert
\* failed sends nothing while a link insert is outstanding, then answers once,
\* 500, naming the new song id and carrying one message per failed insert;
\* the song row (unless a deleteSong took it) and the link rows that were
\* inserted stay in the store, and no upload is started.
C17_LinkFailureReport ==
    \A r \in Reqs :
        (req[r].op = "addSong" /\ req[r].errors # {}) =>
            LET rq == req[r]
                artists == rq.p.body.artists
                inserted == (1..Len(artists)) \ (rq.errors \cup rq.pending)
            IN  /\ rq.pending # {} => (rq.pc = "links" /\ rq.resp = <<>>)
                /\ rq.pc = "links" => rq.resp = <<>>
                /\ rq.pc = "done" =>
                      /\ rq.pending = {}
                      /\ Len(rq.resp) = 1 /\ rq.resp[1].status = 500
                      /\ rq.resp[1].body[3] = <<"Failed to link", rq.data>>
                      /\ Len(rq.resp[1].body[5]) = Cardinality(rq.errors)
                      /\ \A i \in rq.errors :
                            \E j \in 1..Len(rq.resp[1].body[5]) :
                                rq.resp[1].body[5][j] = LinkErrorMessage(i)
                /\ rq.pc \in {"links", "done"}
                /\ \/ \E row \in songs : row.id = rq.data
                   \/ \E q \in Reqs : req[q].op = "deleteSong" /\ req[q].data = rq.data
                /\ \A i \in inserted :
                      CopiesIn([songid |-> rq.data, artistid |-> artists[i],
                                relation |-> IF i = 1 THEN Primary ELSE Featured], links) >= 1
                /\ EffectsOf(r, "pending") \cup EffectsOf(r, "ok")
                      \cup EffectsOf(r, "failed") = {}

\* one addSong lost both of its link inserts, another only the second
C17_Witness ==
    \E r, q \in Reqs :
        /\ req[r].op = "addSong" /\ req[r].pc = "done" /\ req[r].errors = {1, 2}
        /\ Len(req[r].resp[1].body[5]) = 2
        /\ req[q].op = "addSong" /\ req[q].pc = "done" /\ req[q].errors = {2}
        /\ \E row \in songs : row.id = req[q].data

\* C21: a handler invocation never has two responses, and once it has ended,
\* by returning or by an exception, it has exactly one.
C21_ExactlyOneResponse ==
    \A r \in Reqs :
        /\ Len(req[r].resp) <= 1
        /\ req[r].pc \in {"done", "threw"} => Len(req[r].resp) = 1

\* the same for the invocations that end by returning
C21_ReturnedAnsweredOnce ==
    \A r \in Reqs :
        /\ Len(req[r].resp) <= 1
        /\ req[r].pc = "done" => Len(req[r].resp) = 1

\* C21 as stated: no invocation has two responses, and every invocation that
\* has begun comes to have exactly one.
C21_EventuallyOneResponse ==
    /\ [](\A r \in 1..MaxSongReqs : Len(req[r].resp) <= 1)
    /\ \A r \in 1..MaxSongReqs :
          (req[r].pc # "idle") ~> (Len(req[r].resp) = 1)

\* every invocation that has begun ends
C21_EveryInvocationEnds ==
    \A r \in 1..MaxSongReqs :
        (req[r].pc # "idle") ~> (req[r].pc \in {"done", "threw"})

\* request r is an update that supplies the description and nothing else
DescriptionOnly(rq) ==
    /\ rq.op \in {"updateSong", "updateArtist"}
    /\ Truthy(rq.p.body.description)
    /\ \A f \in DOMAIN rq.p.body \ {"description"} : rq.p.body[f] = Missing

\* C11: an updateSong or updateArtist whose body has only the description
\* changes, when the store accepts it, the description of the row with the
\* given id and nothing else: every other column of that row, every other
\* row and every other table stay as they were.
C11_SparseUpdate ==
    [][\A r \in Reqs :
          (req[r].pc = "idle" /\ req'[r].pc = "done" /\ DescriptionOnly(req'[r])) =>
              LET rq == req'[r]
                  id == IF rq.op = "updateArtist" THEN rq.p.artist ELSE rq.p.id
                  set(row) == IF row.id = id /\ rq.resp[1].status = 200
                              THEN [row EXCEPT !.description = rq.p.body.description]
                              ELSE row
              IN  /\ links' = links
                  /\ songs' = IF rq.op = "updateSong"
                              THEN { set(row) : row \in songs } ELSE songs
                  /\ artistTable' = IF rq.op = "updateArtist"
                                    THEN [i \in 1..Len(artistTable) |-> set(artistTable[i])]
                                    ELSE artistTable]_vars

\* a song and an artist were both updated with a description alone, and both
\* rows have the new description and the name and title they started with
C11_Witness ==
    \E r, q \in Reqs :
        /\ req[r].op = "updateSong" /\ req[q].op = "updateArtist"
        /\ DescriptionOnly(req[r]) /\ DescriptionOnly(req[q])
        /\ req[r].resp[1].status = 200 /\ req[q].resp[1].status = 200
        /\ \E row \in songs :
              row.id = req[r].p.id /\ row.description = "d1" /\ row.title = "x"
        /\ \E i \in 1..Len(artistTable) :
              /\ artistTable[i].id = req[q].p.artist
              /\ artistTable[i].description = "d1" /\ artistTable[i].name = "x"

Presigns == { r \in Reqs : req[r].op \in PresignedOps }

\* C14: a presigned-URL request whose lookup the store did not fail, for a
\* song that does not exist or has no Primary link row, is answered 404 and
\* asks backblaze for nothing.
C14_MissingIsNotFound ==
    \A r \in Presigns :
        (req[r].p.ok /\ (~req[r].p.song \/ req[r].p.primaries = 0)) =>
            /\ req[r].pc = "done"
            /\ req[r].resp[1].status = 404
            /\ req[r].p.fileName = <<>>

\* C16: the key deleteSong hands to backblaze.deleteObject for a song is the
\* key the presigned upload URL of that song was issued for.
C16_DeleteKeyIsUploadKey ==
    \A r \in Presigns : \A e \in effects :
        (/\ req[r].op = "generatePresignedUploadURL" /\ req[r].p.fileName # <<>>
         /\ e.kind = "backblaze.deleteObject" /\ req[e.r].data = req[r].p.id)
            => e.target = req[r].p.fileName

(***************************************************************************)
(* Properties of the payment gateway client                                *)
(***************************************************************************)

IsDigit(ch) == \E i \in 1..10 : DigitChars[i] = ch

\* YYMMDD_<sequence>
HasTransIdForm(s) ==
    /\ Len(s) >= 8
    /\ \A i \in 1..6 : IsDigit(s[i])
    /\ s[7] = "_"
    /\ \A i \in 8..Len(s) : IsDigit(s[i])

SequenceOf(s) == ParseInt(SubSeq(s, 8, Len(s)))

StartedCalls == { c \in Calls : call[c].pc # "idle" }
ReturnedCalls == { c \in Calls : call[c].pc = "returned" }

\* C8: the app_trans_id values createOrder returns are pairwise distinct, each
\* has the form YYMMDD_<sequence>, and the sequence numbers grow by exactly
\* one from each call to the call started next, whatever the order in which
\* the gateway answers.
C8_TransIdsDistinctIncreasing ==
    /\ \A c, d \in ReturnedCalls : c # d => call[c].ret # call[d].ret
    /\ \A c \in ReturnedCalls :
          /\ HasTransIdForm(call[c].ret)
          /\ call[c].ret = call[c].order.app_trans_id
    /\ \A c, d \in StartedCalls :
          call[d].idx = call[c].idx + 1
            => SequenceOf(call[d].order.app_trans_id)
                 = SequenceOf(call[c].order.app_trans_id) + 1

\* two calls have returned, the later-started one first seen on another day
C8_Witness ==
    \E c, d \in ReturnedCalls :
        /\ call[c].idx < call[d].idx
        /\ SubSeq(call[c].ret, 1, 6) # SubSeq(call[d].ret, 1, 6)

\* C15: a receiveOrderCallback step leaves the order counter, the calls in
\* progress, the cache and the record store as they were, its result depends
\* on dataStr, reqMac and key2 alone, and the sequence number of every
\* started createOrder is the counter minus the number of calls started
\* after it, however many callbacks came in between.
C15_CallbackIsPure ==
    /\ [][callbacks' # callbacks =>
            /\ orderID' = orderID /\ call' = call /\ started' = started
            /\ cache' = cache /\ sets' = sets
            /\ songs' = songs /\ artistTable' = artistTable /\ links' = links
            /\ lastCallback'.result.return_code =
                  (IF lastCallback'.dataStr = NotAString THEN 0
                   ELSE IF lastCallback'.reqMac = Hmac(Key2, lastCallback'.dataStr)
                        THEN 1 ELSE -1)]_vars
    /\ [](\A c \in StartedCalls :
            SequenceOf(call[c].order.app_trans_id) = orderID - (started - call[c].idx))

\* a callback came between the starts of two createOrder calls that returned
C15_Witness ==
    \E c, d \in ReturnedCalls :
        /\ callbacks > 0
        /\ call[c].idx <= lastCallback.seen /\ lastCallback.seen < call[d].idx
        /\ SequenceOf(call[d].ret) = SequenceOf(call[c].ret) + (call[d].idx - call[c].idx)

\* C9: for a string payload p, receiveOrderCallback(p, m) returns return_code
\* 1 when m is the key2 HMAC of p and return_code -1 for every other m, the
\* key1 HMAC of p included.
C9_CallbackRoundTrip ==
    (callbacks > 0 /\ lastCallback.dataStr \in Payloads) =>
        /\ lastCallback.reqMac = Hmac(Key2, lastCallback.dataStr)
              => lastCallback.result.return_code = 1
        /\ lastCallback.reqMac # Hmac(Key2, lastCallback.dataStr)
              => lastCallback.result.return_code = -1
        /\ lastCallback.reqMac = Hmac(Key1, lastCallback.dataStr)
              => lastCallback.result.return_code = -1

\* a callback carrying the key2 HMAC of its payload was accepted
C9_Witness ==
    /\ callbacks > 0
    /\ lastCallback.dataStr \in Payloads
    /\ lastCallback.reqMac = Hmac(Key2, lastCallback.dataStr)
    /\ lastCallback.result.return_code = 1

====
